---- MODULE Spec2Model ----
(***************************************************************************)
(* Flappy Dragon (src/flappy.cpp): the kinematic body (Player), the        *)
(* obstacle (Obstacle), the session state machine (State) and the frame    *)
(* driver (main).                                                          *)
(*                                                                         *)
(* Number representation.  The program computes in IEEE single precision.  *)
(* The model uses exact fixed point:                                       *)
(*   time      in ticks of 1/TicksPerSec second          (dt = k ticks)    *)
(*   velocity  in units of 1/TicksPerSec pixel per second                  *)
(*   position  in units of 1/PosUnit pixel, PosUnit = TicksPerSec^2        *)
(*   acceleration and force in pixel/s^2 (the mass is 1)                   *)
(* so that pos += vel*dt is pos + vel*k and vel += accel*dt is             *)
(* vel + accel*k, both exact.  Every frame time the model draws is a       *)
(* multiple of 1/16 s and every quantity stays far below 2^24 units, so    *)
(* the float operations of the program are exact on these inputs too.      *)
(***************************************************************************)
EXTENDS Integers, FiniteSets, Sequences, TLC

(* ---------------- program constants (pixels, pixel/s, pixel/s^2) -------- *)
SCREEN_WIDTH == 800
SCREEN_HEIGHT == 600
GAP_SIZE == SCREEN_HEIGHT \div 3
PLAYER_RADIUS == 15
DRAGON_MASS == 1
HORIZONTAL_VELOCITY == 120
GRAV_ACCELERATION == 600
FLAP_FORCE == -20000
OBSTACLE_WIDTH == SCREEN_WIDTH \div 20
PLAYER_START_X == 5
PLAYER_START_Y == SCREEN_HEIGHT \div 2
GAP_MIN == SCREEN_HEIGHT \div 9
GAP_MAX == (SCREEN_HEIGHT * 8) \div 10

(* ---------------- fixed-point representation of float ------------------- *)
TicksPerSec == 16
PosUnit == TicksPerSec * TicksPerSec
VelUnit == TicksPerSec

\* an int (pixels) converted to float
ToFloat(i) == i * PosUnit
\* a float converted to int: C++ truncates toward zero
ToInt(p) == IF p >= 0 THEN p \div PosUnit ELSE -((-p) \div PosUnit)
Abs(a) == IF a < 0 THEN -a ELSE a

(* ---------------- bounds of the model ----------------------------------- *)
\* sessions are followed until the score would exceed MaxScore
MaxScore == 1
\* the frame times GetFrameTime() returns, in ticks: 0 and 13/16 s
DTs == {0, 13}
\* the gap centres the random engine returns (all within [GAP_MIN, GAP_MAX])
Gaps == {GAP_MIN, SCREEN_HEIGHT \div 2, GAP_MAX}
\* single-call checks start from vertical velocities of up to MaxUnitVel frames
\* of free fall (and as many of rise)
MaxUnitVel == 2
\* collision tests take bodies from the top of the screen down to MaxBelow
\* pixels below its bottom
MaxBelow == 30

VARIABLES mode_, player_, obstacle_, score_, can_flap_, quit, pc, ev, lastPlaySpace

vars == <<mode_, player_, obstacle_, score_, can_flap_, quit, pc, ev, lastPlaySpace>>

(* ---------------- Player ------------------------------------------------ *)
\* a body constructed without the gravity acceleration
NewPlayer_NoGravity(x, y) ==
    [ pos |-> [x |-> ToFloat(x), y |-> ToFloat(y)],
      vel |-> [x |-> HORIZONTAL_VELOCITY * VelUnit, y |-> 0],
      acc |-> [x |-> 0, y |-> 0],
      force_accum |-> [x |-> 0, y |-> 0],
      inverse_mass |-> 1 \div DRAGON_MASS ]

\* Player::Player(int x, int y) with the default member initialisers
NewPlayer(x, y) ==
    [ pos |-> [x |-> ToFloat(x), y |-> ToFloat(y)],
      vel |-> [x |-> HORIZONTAL_VELOCITY * VelUnit, y |-> 0],
      acc |-> [x |-> 0, y |-> GRAV_ACCELERATION],
      force_accum |-> [x |-> 0, y |-> 0],
      inverse_mass |-> 1 \div DRAGON_MASS ]

\* add_force with the two components exchanged
add_force_Swapped(p, fx, fy) ==
    [p EXCEPT !.force_accum = [x |-> p.force_accum.x + fy, y |-> p.force_accum.y + fx]]

\* Player::add_force
add_force(p, fx, fy) ==
    [p EXCEPT !.force_accum = [x |-> p.force_accum.x + fx, y |-> p.force_accum.y + fy]]

\* the test "pos.y < 0.0" of Player::physics
NeedsClamp(y) == y < 0

\* physics with the clamp resetting the position only
physics_KeepsVelocity(p, dt) ==
    LET py == p.pos.y + p.vel.y * dt
    IN  [p EXCEPT !.pos = [x |-> p.pos.x + p.vel.x * dt, y |-> IF py < 0 THEN 0 ELSE py],
                  !.vel = [x |-> p.vel.x + (p.acc.x + p.force_accum.x * p.inverse_mass) * dt,
                           y |-> p.vel.y + (p.acc.y + p.force_accum.y * p.inverse_mass) * dt],
                  !.force_accum = [x |-> 0, y |-> 0]]

\* physics advancing the velocity before the position
physics_VelocityFirst(p, dt) ==
    LET vx == p.vel.x + (p.acc.x + p.force_accum.x * p.inverse_mass) * dt
        vy == p.vel.y + (p.acc.y + p.force_accum.y * p.inverse_mass) * dt
        py == p.pos.y + vy * dt
    IN  [p EXCEPT !.pos = [x |-> p.pos.x + vx * dt, y |-> IF py < 0 THEN 0 ELSE py],
                  !.vel = [x |-> vx, y |-> IF py < 0 THEN 0 ELSE vy],
                  !.force_accum = [x |-> 0, y |-> 0]]

\* physics without clearing the accumulated force
physics_KeepsForce(p, dt) ==
    LET py == p.pos.y + p.vel.y * dt
        vx == p.vel.x + (p.acc.x + p.force_accum.x * p.inverse_mass) * dt
        vy == p.vel.y + (p.acc.y + p.force_accum.y * p.inverse_mass) * dt
    IN  [p EXCEPT !.pos = [x |-> p.pos.x + p.vel.x * dt, y |-> IF py < 0 THEN 0 ELSE py],
                  !.vel = [x |-> vx, y |-> IF py < 0 THEN 0 ELSE vy]]

\* Player::physics(dt), dt in ticks
physics(p, dt) ==
    LET px == p.pos.x + p.vel.x * dt
        py == p.pos.y + p.vel.y * dt
        ax == p.acc.x + p.force_accum.x * p.inverse_mass
        ay == p.acc.y + p.force_accum.y * p.inverse_mass
        vx == p.vel.x + ax * dt
        vy == p.vel.y + ay * dt
    IN  [p EXCEPT !.pos = [x |-> px, y |-> IF NeedsClamp(py) THEN 0 ELSE py],
                  !.vel = [x |-> vx, y |-> IF NeedsClamp(py) THEN 0 ELSE vy],
                  !.force_accum = [x |-> 0, y |-> 0]]

\* flap without zeroing the vertical velocity
flap_KeepsVelocity(p) == add_force(p, 0, FLAP_FORCE)

\* Player::flap
flap(p) == add_force([p EXCEPT !.vel.y = 0], 0, FLAP_FORCE)

(* ---------------- Obstacle ---------------------------------------------- *)
\* Obstacle::create(x, score): g is the value the random engine returns
create(x, g) == [x |-> x, gap |-> g, size |-> GAP_SIZE]

\* raylib CheckCollisionCircleRec(center, radius, rec), everything in position
\* units; rec = [x, y, width, height].  Widths and heights are whole or half
\* pixels, so halving them is exact.
CheckCollisionCircleRec(center, radius, rec) ==
    LET hw == rec.width \div 2
        hh == rec.height \div 2
        dx == Abs(center.x - (rec.x + hw))
        dy == Abs(center.y - (rec.y + hh))
    IN  IF dx > hw + radius THEN FALSE
        ELSE IF dy > hh + radius THEN FALSE
        ELSE IF dx <= hw THEN TRUE
        ELSE IF dy <= hh THEN TRUE
        ELSE (dx - hw) * (dx - hw) + (dy - hh) * (dy - hh) <= radius * radius

\* is_hit testing the bar above the gap only
is_hit_UpperOnly(o, p) ==
    CheckCollisionCircleRec(p.pos, ToFloat(PLAYER_RADIUS),
        [x |-> ToFloat(o.x), y |-> 0, width |-> ToFloat(OBSTACLE_WIDTH),
         height |-> ToFloat(o.gap) - (ToFloat(o.size) \div 2)])

\* Obstacle::is_hit(player)
is_hit(o, p) ==
    LET half_size == ToFloat(o.size) \div 2
        upper == [x |-> ToFloat(o.x), y |-> 0, width |-> ToFloat(OBSTACLE_WIDTH),
                  height |-> ToFloat(o.gap) - half_size]
        lower == [x |-> ToFloat(o.x), y |-> ToFloat(o.gap) + half_size,
                  width |-> ToFloat(OBSTACLE_WIDTH),
                  height |-> ToFloat(SCREEN_HEIGHT - o.gap) - half_size]
    IN  CheckCollisionCircleRec(p.pos, ToFloat(PLAYER_RADIUS), upper)
        \/ CheckCollisionCircleRec(p.pos, ToFloat(PLAYER_RADIUS), lower)

(* ---------------- State ------------------------------------------------- *)
\* restart without the score reset
restart_KeepsScore(g) ==
    /\ mode_' = "Playing"
    /\ player_' = NewPlayer(PLAYER_START_X, PLAYER_START_Y)
    /\ obstacle_' = [x |-> SCREEN_WIDTH, gap |-> g, size |-> GAP_SIZE]
    /\ UNCHANGED <<score_, can_flap_>>

\* State::restart: the session after restart(); can_flap_ is not assigned
restart(g) ==
    /\ mode_' = "Playing"
    /\ player_' = NewPlayer(PLAYER_START_X, ToInt(ToFloat(SCREEN_HEIGHT) \div 2))
    /\ obstacle_' = create(SCREEN_WIDTH, g)
    /\ score_' = 0
    /\ UNCHANGED can_flap_

\* on_main_menu with the two key tests in the opposite order
on_main_menu_QuitFirst(keyP, keyQ, g) ==
    IF keyQ THEN /\ mode_' = "Quitting"
                 /\ UNCHANGED <<player_, obstacle_, score_, can_flap_>>
    ELSE IF keyP THEN restart(g)
    ELSE UNCHANGED <<mode_, player_, obstacle_, score_, can_flap_>>

\* State::on_main_menu; keyP, keyQ are IsKeyDown(KEY_P), IsKeyDown(KEY_Q)
on_main_menu(keyP, keyQ, g) ==
    IF keyP THEN restart(g)
    ELSE IF keyQ THEN /\ mode_' = "Quitting"
                      /\ UNCHANGED <<player_, obstacle_, score_, can_flap_>>
    ELSE UNCHANGED <<mode_, player_, obstacle_, score_, can_flap_>>

\* on_died with the two key tests in the opposite order
on_died_QuitFirst(keyP, keyQ, g) ==
    IF keyQ THEN /\ mode_' = "Quitting"
                 /\ UNCHANGED <<player_, obstacle_, score_, can_flap_>>
    ELSE IF keyP THEN restart(g)
    ELSE UNCHANGED <<mode_, player_, obstacle_, score_, can_flap_>>

\* on_died sending the play key to the main menu instead of a new session
on_died_ToMenu(keyP, keyQ, g) ==
    IF keyP THEN /\ mode_' = "Menu"
                 /\ UNCHANGED <<player_, obstacle_, score_, can_flap_>>
    ELSE IF keyQ THEN /\ mode_' = "Quitting"
                      /\ UNCHANGED <<player_, obstacle_, score_, can_flap_>>
    ELSE UNCHANGED <<mode_, player_, obstacle_, score_, can_flap_>>

\* State::on_died
on_died(keyP, keyQ, g) ==
    IF keyP THEN restart(g)
    ELSE IF keyQ THEN /\ mode_' = "Quitting"
                      /\ UNCHANGED <<player_, obstacle_, score_, can_flap_>>
    ELSE UNCHANGED <<mode_, player_, obstacle_, score_, can_flap_>>

\* the flap test without the latch: level-triggered
DoesFlap_Level(cf, space) == space

\* "can_flap_ && IsKeyDown(KEY_SPACE)" of State::on_play
DoesFlap(cf, space) == cf /\ space

\* can_flap_ after the two latch tests of State::on_play
Latch(cf, space) ==
    LET cf1 == IF DoesFlap(cf, space) THEN FALSE ELSE cf
    IN  IF ~cf1 /\ ~space THEN TRUE ELSE cf1

\* the replacement obstacle placed as restart places it
NextObstacleX_Absolute(p) == SCREEN_WIDTH

\* the replacement obstacle placed two screen widths ahead
NextObstacleX_TwoScreens(p) == ToInt(p.pos.x + ToFloat(2 * SCREEN_WIDTH))

\* the x of the replacement obstacle: float pos.x + SCREEN_WIDTH passed as int
NextObstacleX(p) == ToInt(p.pos.x + ToFloat(SCREEN_WIDTH))

\* the two tests in the opposite order
Outcome_PassFirst(o, p) ==
    IF p.pos.x > ToFloat(o.x) THEN "pass"
    ELSE IF p.pos.y > ToFloat(SCREEN_HEIGHT) \/ is_hit(o, p) THEN "die"
    ELSE "none"

\* the death test without the off-bottom test
Outcome_NoFloor(o, p) ==
    IF is_hit(o, p) THEN "die"
    ELSE IF p.pos.x > ToFloat(o.x) THEN "pass"
    ELSE "none"

\* the pass test on the body's leading edge instead of its centre
Outcome_PassAtBar(o, p) ==
    IF p.pos.y > ToFloat(SCREEN_HEIGHT) \/ is_hit(o, p) THEN "die"
    ELSE IF p.pos.x + ToFloat(PLAYER_RADIUS) >= ToFloat(o.x) THEN "pass"
    ELSE "none"

\* the if / else if that ends State::on_play, on the body after physics and flap
Outcome(o, p) ==
    IF p.pos.y > ToFloat(SCREEN_HEIGHT) \/ is_hit(o, p) THEN "die"
    ELSE IF p.pos.x > ToFloat(o.x) THEN "pass"
    ELSE "none"

\* State::on_play; dt is GetFrameTime(), space is IsKeyDown(KEY_SPACE)
\* (IsKeyUp is its negation), g the random gap of a replacement obstacle
on_play(dt, space, g) ==
    LET p1 == physics(player_, dt)
        p2 == IF DoesFlap(can_flap_, space) THEN flap(p1) ELSE p1
        out == Outcome(obstacle_, p2)
    IN  /\ player_' = p2
        /\ can_flap_' = Latch(can_flap_, space)
        /\ mode_' = IF out = "die" THEN "End" ELSE mode_
        /\ score_' = IF out = "pass" THEN score_ + 1 ELSE score_
        /\ obstacle_' = IF out = "pass" THEN create(NextObstacleX(p2), g) ELSE obstacle_

(* ---------------- observation ------------------------------------------- *)
\* ev records what the last step did and the keys that were down in it;
\* lastPlaySpace is the flap key in the most recent Playing frame.  Neither is
\* read by the program.
NoEvent ==
    [handler |-> "none", space |-> FALSE, keyP |-> FALSE, keyQ |-> FALSE,
     flapped |-> FALSE, clamped |-> FALSE, dt |-> 0, dt2 |-> 0, hit |-> FALSE]

Observe(h, space, keyP, keyQ) ==
    ev' = [NoEvent EXCEPT !.handler = h, !.space = space, !.keyP = keyP, !.keyQ = keyQ]

ObservePlay(dt, space, keyP, keyQ) ==
    /\ ev' = [NoEvent EXCEPT !.handler = "on_play", !.space = space,
                             !.keyP = keyP, !.keyQ = keyQ, !.dt = dt,
                             !.flapped = (can_flap_ /\ space),
                             !.clamped = (player_.pos.y + player_.vel.y * dt < 0)]
    /\ lastPlaySpace' = IF space THEN "down" ELSE "up"

(* ---------------- main -------------------------------------------------- *)
\* the switch without the Quitting case, falling into the End handler
Dispatch_NoQuitCase(m) ==
    CASE m = "Menu" -> "on_main_menu"
      [] m = "Playing" -> "on_play"
      [] OTHER -> "on_died"

\* the switch of main: the handler an iteration runs for a mode
Dispatch(m) ==
    CASE m = "Menu" -> "on_main_menu"
      [] m = "Playing" -> "on_play"
      [] m = "End" -> "on_died"
      [] OTHER -> "quit"

\* the loop condition holds and the iteration runs the handler h
Iteration(h) == pc = "loop" /\ ~quit /\ Dispatch(mode_) = h

MenuFrame ==
    /\ Iteration("on_main_menu")
    /\ \E keyP \in BOOLEAN, keyQ \in BOOLEAN, space \in BOOLEAN, g \in Gaps :
          /\ on_main_menu(keyP, keyQ, g)
          /\ Observe("on_main_menu", space, keyP, keyQ)
    /\ UNCHANGED <<quit, pc, lastPlaySpace>>

PlayFrame ==
    /\ Iteration("on_play")
    /\ \E dt \in DTs, space \in BOOLEAN, keyP \in BOOLEAN, keyQ \in BOOLEAN, g \in Gaps :
          /\ on_play(dt, space, g)
          /\ ObservePlay(dt, space, keyP, keyQ)
    /\ score_' <= MaxScore
    /\ UNCHANGED <<quit, pc>>

DiedFrame ==
    /\ Iteration("on_died")
    /\ \E keyP \in BOOLEAN, keyQ \in BOOLEAN, space \in BOOLEAN, g \in Gaps :
          /\ on_died(keyP, keyQ, g)
          /\ Observe("on_died", space, keyP, keyQ)
    /\ UNCHANGED <<quit, pc, lastPlaySpace>>

\* case GameMode::Quitting: quit = true
QuitFrame ==
    /\ Iteration("quit")
    /\ quit' = TRUE
    /\ Observe("quit", FALSE, FALSE, FALSE)
    /\ UNCHANGED <<mode_, player_, obstacle_, score_, can_flap_, pc, lastPlaySpace>>

\* the loop condition fails because quit is set
ExitOnQuit ==
    /\ pc = "loop" /\ quit
    /\ pc' = "exited"
    /\ UNCHANGED <<mode_, player_, obstacle_, score_, can_flap_, quit, ev, lastPlaySpace>>

\* the loop condition fails because WindowShouldClose() returns true
WindowClose ==
    /\ pc = "loop" /\ ~quit
    /\ pc' = "exited"
    /\ UNCHANGED <<mode_, player_, obstacle_, score_, can_flap_, quit, ev, lastPlaySpace>>

\* State state; bool quit = false;
Init ==
    /\ mode_ = "Menu"
    /\ player_ = NewPlayer(PLAYER_START_X, PLAYER_START_Y)
    /\ \E g \in Gaps : obstacle_ = create(SCREEN_WIDTH, g)
    /\ score_ = 0
    /\ can_flap_ = TRUE
    /\ quit = FALSE
    /\ pc = "loop"
    /\ ev = NoEvent
    /\ lastPlaySpace = "none"

Next == MenuFrame \/ PlayFrame \/ DiedFrame \/ QuitFrame \/ ExitOnQuit \/ WindowClose

Spec == Init /\ [][Next]_vars

\* the loop keeps iterating: an iteration that can run eventually runs
FairSpec == Spec /\ WF_vars(Next)

(* ---------------- sessions without flaps ---------------------------- *)
\* The main loop when IsKeyDown(KEY_SPACE) is false in every frame, every
\* GetFrameTime() is at least five ticks and WindowShouldClose() stays false.
LiveDTs == {dt \in 1..16 : dt \in DTs \/ dt = 5}

LiveMenuFrame == MenuFrame /\ ~ev'.space

LivePlayFrame ==
    /\ Iteration("on_play")
    /\ \E dt \in LiveDTs, keyP \in BOOLEAN, keyQ \in BOOLEAN, g \in Gaps :
          /\ on_play(dt, FALSE, g)
          /\ ObservePlay(dt, FALSE, keyP, keyQ)
    /\ score_' <= MaxScore
    /\ UNCHANGED <<quit, pc>>

LiveDiedFrame == DiedFrame /\ ~ev'.space

NextLive == LiveMenuFrame \/ LivePlayFrame \/ LiveDiedFrame \/ QuitFrame \/ ExitOnQuit

\* the loop keeps iterating: an iteration that can run eventually runs
LiveSpec == Init /\ [][NextLive]_vars /\ WF_vars(NextLive)

(* ---------------- single calls from arbitrary session states ----------- *)
\* One call of Player::physics or of State::on_play on a session whose fields
\* are drawn from the sets below, as a unit test constructs it.
UnitXs == {ToFloat(PLAYER_START_X), ToFloat(SCREEN_WIDTH - PLAYER_RADIUS),
           ToFloat(SCREEN_WIDTH) + (PosUnit \div 2)}
UnitYs == {0, ToFloat(PLAYER_RADIUS), ToFloat(PLAYER_START_Y), ToFloat(SCREEN_HEIGHT),
           ToFloat(SCREEN_HEIGHT + 1)}
UnitVys == {k * GRAV_ACCELERATION * dt : k \in (-MaxUnitVel)..MaxUnitVel, dt \in DTs}
           \cup {(GRAV_ACCELERATION + FLAP_FORCE) * dt : dt \in DTs}
UnitForces == {0, FLAP_FORCE}

InitUnit ==
    /\ mode_ = "Playing"
    /\ \E x \in UnitXs, y \in UnitYs, vy \in UnitVys, f \in UnitForces :
          player_ = [NewPlayer(PLAYER_START_X, PLAYER_START_Y) EXCEPT
                        !.pos = [x |-> x, y |-> y], !.vel.y = vy, !.force_accum.y = f]
    /\ \E g \in Gaps : obstacle_ = create(SCREEN_WIDTH, g)
    /\ score_ = 0
    /\ can_flap_ \in BOOLEAN
    /\ quit = FALSE
    /\ pc = "loop"
    /\ ev = NoEvent
    /\ lastPlaySpace = "none"

\* one call of Player::physics
UnitPhysics ==
    /\ ev.handler = "none"
    /\ \E dt \in DTs :
          /\ player_' = physics(player_, dt)
          /\ ev' = [NoEvent EXCEPT !.handler = "physics", !.dt = dt,
                                   !.clamped = (player_.pos.y + player_.vel.y * dt < 0)]
    /\ UNCHANGED <<mode_, obstacle_, score_, can_flap_, quit, pc, lastPlaySpace>>

\* one call of State::on_play
UnitOnPlay ==
    /\ ev.handler = "none"
    /\ \E dt \in DTs, space \in BOOLEAN, g \in Gaps :
          /\ on_play(dt, space, g)
          /\ ObservePlay(dt, space, FALSE, FALSE)
    /\ UNCHANGED <<quit, pc>>

\* two calls of Player::physics in a row; ev.clamped tells whether either call,
\* or the single call with dt1 + dt2, would clamp
UnitPhysicsTwice ==
    /\ ev.handler = "none"
    /\ \E dt1 \in DTs, dt2 \in DTs :
          LET p1 == physics(player_, dt1)
          IN  /\ player_' = physics(p1, dt2)
              /\ ev' = [NoEvent EXCEPT !.handler = "physics_twice", !.dt = dt1, !.dt2 = dt2,
                          !.clamped = \/ player_.pos.y + player_.vel.y * dt1 < 0
                                      \/ p1.pos.y + p1.vel.y * dt2 < 0
                                      \/ player_.pos.y + player_.vel.y * (dt1 + dt2) < 0]
    /\ UNCHANGED <<mode_, obstacle_, score_, can_flap_, quit, pc, lastPlaySpace>>

NextUnit == UnitPhysics \/ UnitOnPlay \/ UnitPhysicsTwice

SpecUnit == InitUnit /\ [][NextUnit]_vars

(* ---------------- single calls of Obstacle::is_hit ---------------------- *)
\* gap centres: those of Gaps, the one whose upper bar has height 0 and one
\* whose upper bar has a negative height smaller than the body's radius
HitGaps == Gaps \cup {GAP_SIZE \div 2, GAP_SIZE \div 2 - PLAYER_RADIUS + 1}
\* the body's x within the obstacle's column: its left edge, middle and right edge
HitXs == {ToFloat(SCREEN_WIDTH), ToFloat(SCREEN_WIDTH + OBSTACLE_WIDTH \div 2),
          ToFloat(SCREEN_WIDTH + OBSTACLE_WIDTH)}
HitYs == {ToFloat(y) : y \in 0..(SCREEN_HEIGHT + MaxBelow)}

InitHit ==
    /\ mode_ = "Playing"
    /\ \E x \in HitXs, y \in HitYs :
          player_ = [NewPlayer(PLAYER_START_X, PLAYER_START_Y) EXCEPT
                        !.pos = [x |-> x, y |-> y]]
    /\ \E g \in HitGaps : obstacle_ = create(SCREEN_WIDTH, g)
    /\ score_ = 0
    /\ can_flap_ = TRUE
    /\ quit = FALSE
    /\ pc = "loop"
    /\ ev = NoEvent
    /\ lastPlaySpace = "none"

\* one call of Obstacle::is_hit
UnitIsHit ==
    /\ ev.handler = "none"
    /\ ev' = [NoEvent EXCEPT !.handler = "is_hit", !.hit = is_hit(obstacle_, player_)]
    /\ UNCHANGED <<mode_, player_, obstacle_, score_, can_flap_, quit, pc, lastPlaySpace>>

NextHit == UnitIsHit

SpecHit == InitHit /\ [][NextHit]_vars

(* ======================= properties ==================================== *)
\* the steps that are one frame of each handler
IsPlayStep == mode_ = "Playing" /\ pc = "loop" /\ pc' = "loop" /\ ev'.handler = "on_play"
IsMenuStep == mode_ = "Menu" /\ pc = "loop" /\ pc' = "loop" /\ ev'.handler = "on_main_menu"
IsDiedStep == mode_ = "End" /\ pc = "loop" /\ pc' = "loop" /\ ev'.handler = "on_died"

\* the body after this frame's integration is off the bottom or hits the
\* obstacle that was current in the frame
DeadAfter == player_'.pos.y > ToFloat(SCREEN_HEIGHT) \/ is_hit(obstacle_, player_')
\* the body after this frame's integration is past the frame's obstacle
PastAfter == player_'.pos.x > ToFloat(obstacle_.x)

\* C1: in a Playing frame whose integrated body is off the bottom or collides,
\* the mode becomes End and score and obstacle are left alone, also when the
\* body is past the obstacle's x.
C1_DeathFirst ==
    [][(IsPlayStep /\ DeadAfter)
          => (mode_' = "End" /\ score_' = score_ /\ obstacle_' = obstacle_)]_vars

\* a frame that ended the session with the body past the obstacle's x
C1_Witness ==
    /\ ev.handler = "on_play" /\ mode_ = "End"
    /\ player_.pos.x > ToFloat(obstacle_.x)

\* C2 as stated: a surviving frame that passes the obstacle adds 1 to the score
\* and the new obstacle's x EQUALS body x + screen width; a surviving frame that
\* does not pass leaves score and obstacle unchanged.
C2_Original ==
    [][(IsPlayStep /\ ~DeadAfter)
          => IF PastAfter
             THEN /\ score_' = score_ + 1
                  /\ ToFloat(obstacle_'.x) = player_'.pos.x + ToFloat(SCREEN_WIDTH)
             ELSE score_' = score_ /\ obstacle_' = obstacle_]_vars

\* C2 amended: the new obstacle's x is body x + screen width with its fraction
\* dropped (the obstacle's x is an int).
C2_Amended ==
    [][(IsPlayStep /\ ~DeadAfter)
          => IF PastAfter
             THEN /\ score_' = score_ + 1
                  /\ mode_' = "Playing"
                  /\ ToFloat(obstacle_'.x) <= player_'.pos.x + ToFloat(SCREEN_WIDTH)
                  /\ player_'.pos.x + ToFloat(SCREEN_WIDTH) < ToFloat(obstacle_'.x + 1)
             ELSE score_' = score_ /\ obstacle_' = obstacle_]_vars

\* right after a pass at a body x that is not a whole pixel
C2_Witness ==
    /\ ev.handler = "on_play" /\ mode_ = "Playing" /\ score_ = 1
    /\ player_.pos.x % PosUnit # 0
    /\ ToFloat(obstacle_.x) < player_.pos.x + ToFloat(SCREEN_WIDTH)
    /\ player_.pos.x + ToFloat(SCREEN_WIDTH) < ToFloat(obstacle_.x + 1)

\* the session right after restart(), but for the obstacle's random gap
Restarted ==
    /\ mode_' = "Playing"
    /\ score_' = 0
    /\ player_'.pos = [x |-> ToFloat(PLAYER_START_X), y |-> ToFloat(PLAYER_START_Y)]
    /\ player_'.vel = [x |-> HORIZONTAL_VELOCITY * VelUnit, y |-> 0]
    /\ player_'.force_accum = [x |-> 0, y |-> 0]
    /\ obstacle_'.gap \in GAP_MIN..GAP_MAX
    /\ obstacle_'.size = GAP_SIZE
    /\ ToFloat(obstacle_'.x) > player_'.pos.x

\* C3 as stated: Menu frame: play -> restarted and Playing; quit -> Quitting;
\* no input -> Menu.
C3_Original ==
    [][IsMenuStep
          => /\ ev'.keyP => Restarted
             /\ ev'.keyQ => mode_' = "Quitting"
             /\ (~ev'.keyP /\ ~ev'.keyQ) => mode_' = "Menu"]_vars

\* C3 amended: the quit input leads to Quitting when the play input is not
\* down in the same frame (play is tested first).
C3_Amended ==
    [][IsMenuStep
          => /\ ev'.keyP => Restarted
             /\ (ev'.keyQ /\ ~ev'.keyP) => mode_' = "Quitting"
             /\ (~ev'.keyP /\ ~ev'.keyQ) => mode_' = "Menu"]_vars

\* a Menu frame with both keys down started a session
C3_Witness ==
    /\ ev.handler = "on_main_menu" /\ ev.keyP /\ ev.keyQ
    /\ mode_ = "Playing" /\ score_ = 0

\* C4 as stated: End frame: play -> restarted and Playing; quit -> Quitting.
C4_Original ==
    [][IsDiedStep
          => /\ ev'.keyP => Restarted
             /\ ev'.keyQ => mode_' = "Quitting"]_vars

\* C4 amended: quit leads to Quitting when play is not down in the same frame.
C4_Amended ==
    [][IsDiedStep
          => /\ ev'.keyP => Restarted
             /\ (ev'.keyQ /\ ~ev'.keyP) => mode_' = "Quitting"]_vars

\* an End frame with both keys down restarted the session
C4_Witness ==
    /\ ev.handler = "on_died" /\ ev.keyP /\ ev.keyQ
    /\ mode_ = "Playing" /\ score_ = 0

\* C5: each iteration runs the one handler of the current mode; in Quitting no
\* handler runs and the session never changes again; and the loop exits.
C5_Driver ==
    /\ [][(pc = "loop" /\ pc' = "loop")
             => /\ mode_ = "Menu" => ev'.handler = "on_main_menu"
                /\ mode_ = "Playing" => ev'.handler = "on_play"
                /\ mode_ = "End" => ev'.handler = "on_died"
                /\ mode_ = "Quitting"
                      => /\ ev'.handler \notin {"on_main_menu", "on_play", "on_died"}
                         /\ quit']_vars
    /\ [][mode_ = "Quitting"
             => UNCHANGED <<mode_, player_, obstacle_, score_, can_flap_>>]_vars
    /\ (mode_ = "Quitting" ~> pc = "exited")

\* the loop has exited through the Quitting case
C5_Witness == pc = "exited" /\ quit /\ mode_ = "Quitting"

\* C6 as stated: after restart() the body is initial, the obstacle is one screen
\* width ahead of the body, the score is 0 and the mode Playing.
C6_Original ==
    [][((IsMenuStep \/ IsDiedStep) /\ ev'.keyP)
          => /\ Restarted
             /\ ToFloat(obstacle_'.x) = player_'.pos.x + ToFloat(SCREEN_WIDTH)]_vars

\* C6 amended: the obstacle is at world x = SCREEN_WIDTH, which is
\* SCREEN_WIDTH minus the body's initial x ahead of the body.
C6_Amended ==
    [][((IsMenuStep \/ IsDiedStep) /\ ev'.keyP)
          => /\ Restarted
             /\ obstacle_'.x = SCREEN_WIDTH
             /\ ToFloat(obstacle_'.x) - player_'.pos.x
                   = ToFloat(SCREEN_WIDTH - PLAYER_START_X)]_vars

\* a restart from the End screen
C6_Witness ==
    /\ ev.handler = "on_died" /\ ev.keyP
    /\ mode_ = "Playing" /\ score_ = 0 /\ obstacle_.x = SCREEN_WIDTH
    /\ player_.pos = [x |-> ToFloat(PLAYER_START_X), y |-> ToFloat(PLAYER_START_Y)]

\* C7: after a call of physics the body's y is >= 0, and when the step clamped
\* y (the advanced y was negative) y is 0 and the vertical velocity is 0.
C7_Clamp ==
    ev.handler = "physics"
       => /\ player_.pos.y >= 0
          /\ ev.clamped => (player_.pos.y = 0 /\ player_.vel.y = 0)

\* a call of physics that clamped
C7_Witness ==
    ev.handler = "physics" /\ ev.clamped /\ player_.pos.y = 0 /\ player_.vel.y = 0

\* a flap was applied in the frame: its force is in the accumulator
FlapApplied == player_'.force_accum = [x |-> 0, y |-> FLAP_FORCE] /\ player_'.vel.y = 0
NoFlapApplied == player_'.force_accum = [x |-> 0, y |-> 0]

\* C8: a key held over consecutive Playing frames flaps in none but the first;
\* a Playing frame with the key up re-arms the latch, and the next Playing
\* frame with the key down applies one flap.
C8_Latch ==
    [][IsPlayStep
          => /\ (ev.handler = "on_play" /\ ev.space /\ ev'.space) => NoFlapApplied
             /\ ~ev'.space => (can_flap_' /\ NoFlapApplied)
             /\ (lastPlaySpace = "up" /\ ev'.space) => FlapApplied]_vars

\* the key is held in a second Playing frame and no flap is applied
C8_Witness ==
    /\ ev.handler = "on_play" /\ ev.space /\ ~ev.flapped
    /\ lastPlaySpace = "down" /\ ~can_flap_
    /\ player_.force_accum.y = 0

\* C9 as stated: a Playing frame with the key down, after a frame (of any
\* handler) with the key up, applies a flap.
C9_FreshPress ==
    [][(IsPlayStep /\ ~ev.space /\ ev'.space) => FlapApplied]_vars

\* C10 as stated: from Playing with the body's y at SCREEN_HEIGHT + 1, one call
\* of on_play leaves the mode at End.
C10_Original ==
    [][(IsPlayStep /\ player_.pos.y = ToFloat(SCREEN_HEIGHT + 1))
          => mode_' = "End"]_vars

\* C10 amended: ... when the body's vertical velocity is not upward.
C10_Amended ==
    [][(IsPlayStep /\ player_.pos.y = ToFloat(SCREEN_HEIGHT + 1) /\ player_.vel.y >= 0)
          => mode_' = "End"]_vars

\* the session ended by a frame that left the body at SCREEN_HEIGHT + 1, far
\* from the obstacle, with the flap key down
C10_Witness ==
    /\ ev.handler = "on_play" /\ mode_ = "End" /\ ev.space
    /\ player_.pos.y = ToFloat(SCREEN_HEIGHT + 1)
    /\ ~is_hit(obstacle_, player_)

\* the edges of the obstacle's gap and the body's y, in position units
GapTop == ToFloat(obstacle_.gap) - (ToFloat(obstacle_.size) \div 2)
GapBottom == ToFloat(obstacle_.gap) + (ToFloat(obstacle_.size) \div 2)
BodyY == player_.pos.y

\* C11 as stated: at the obstacle's column is_hit is false for a body strictly
\* inside the gap and true for a body above gap - size/2 or below gap + size/2.
C11_Original ==
    ev.handler = "is_hit"
       => /\ (GapTop < BodyY /\ BodyY < GapBottom) => ~ev.hit
          /\ (BodyY < GapTop \/ BodyY > GapBottom) => ev.hit

\* C11 amended: the body is a circle of radius PLAYER_RADIUS.  is_hit is false
\* when the body's y is inside the gap by more than the radius, and true when
\* the body's y is above gap - size/2 or below gap + size/2 and not more than
\* the radius beyond the top or the bottom of the screen.
C11_Amended ==
    ev.handler = "is_hit"
       => /\ (GapTop + ToFloat(PLAYER_RADIUS) < BodyY
                 /\ BodyY < GapBottom - ToFloat(PLAYER_RADIUS)) => ~ev.hit
          /\ ((BodyY < GapTop \/ BodyY > GapBottom)
                 /\ BodyY >= -ToFloat(PLAYER_RADIUS)
                 /\ BodyY <= ToFloat(SCREEN_HEIGHT + PLAYER_RADIUS)) => ev.hit

\* a body inside the gap by more than its radius is not hit
C11_Witness ==
    /\ ev.handler = "is_hit" /\ ~ev.hit
    /\ GapTop + ToFloat(PLAYER_RADIUS) < BodyY
    /\ BodyY < GapBottom - ToFloat(PLAYER_RADIUS)

\* C12: a Playing frame that applies a flap ends with vertical velocity 0 and
\* exactly one flap force accumulated, its position being the integrated one;
\* the next frame's integration adds (gravity + flap force * inverse mass) * dt
\* to the vertical velocity and leaves the accumulator at zero.
C12_FlapConsumed ==
    [][IsPlayStep
          => /\ ev'.flapped
                   => /\ player_'.vel.y = 0
                      /\ player_'.force_accum = [x |-> 0, y |-> FLAP_FORCE]
                      /\ player_'.pos.x = player_.pos.x + player_.vel.x * ev'.dt
                      /\ player_'.pos.y
                            = IF player_.pos.y + player_.vel.y * ev'.dt < 0 THEN 0
                              ELSE player_.pos.y + player_.vel.y * ev'.dt
             /\ player_.force_accum.y = FLAP_FORCE
                   => /\ player_'.vel.y
                            = player_.vel.y
                              + (GRAV_ACCELERATION + FLAP_FORCE * (1 \div DRAGON_MASS)) * ev'.dt
                      /\ player_'.force_accum = [x |-> 0, y |-> 0]]_vars

\* the frame after a flap, of positive frame time: the body moves upward with
\* the velocity the flap force gave it
C12_Witness ==
    /\ ev.handler = "on_play" /\ ev.dt > 0 /\ ~ev.flapped
    /\ player_.vel.y = (GRAV_ACCELERATION + FLAP_FORCE) * ev.dt
    /\ player_.force_accum.y = 0

\* C13: the body's horizontal velocity is HORIZONTAL_VELOCITY in every state
\* (no horizontal force or acceleration ever acts), and in every Playing frame
\* the body's x advances by that velocity times the frame time, so it never
\* decreases within a session.
C13_HorizontalConstant ==
    /\ [](/\ player_.vel.x = HORIZONTAL_VELOCITY * VelUnit
          /\ player_.force_accum.x = 0
          /\ player_.acc.x = 0)
    /\ [][IsPlayStep
             => /\ player_'.pos.x = player_.pos.x + HORIZONTAL_VELOCITY * VelUnit * ev'.dt
                /\ player_'.pos.x >= player_.pos.x]_vars

\* after a flap took the body to the top (a clamp), its horizontal velocity is
\* still the initial one and it has advanced
C13_Witness ==
    /\ ev.handler = "on_play" /\ ev.clamped
    /\ player_.vel.x = HORIZONTAL_VELOCITY * VelUnit
    /\ player_.pos.x > ToFloat(PLAYER_START_X)

\* two calls of physics in a row, none of the compared calls clamping
IsTwiceStep == ev.handler = "none" /\ ev'.handler = "physics_twice" /\ ~ev'.clamped
\* the body after one step of dt1 + dt2: pos += vel*dt; vel += (acc + force/mass)*dt
OnceDt == ev'.dt + ev'.dt2
OncePos == [x |-> player_.pos.x + player_.vel.x * OnceDt,
            y |-> player_.pos.y + player_.vel.y * OnceDt]
OnceVel == [x |-> player_.vel.x + (player_.acc.x + player_.force_accum.x * player_.inverse_mass) * OnceDt,
            y |-> player_.vel.y + (player_.acc.y + player_.force_accum.y * player_.inverse_mass) * OnceDt]

\* C14 as stated: without clamping, integrating dt1 then dt2 gives the position
\* and the velocity of integrating dt1 + dt2 once.  "The same constant
\* acceleration" is read as: no force is accumulated, gravity alone acts.
C14_Original ==
    [][(IsTwiceStep /\ player_.force_accum = [x |-> 0, y |-> 0])
          => (player_'.pos = OncePos /\ player_'.vel = OnceVel)]_vars

\* C14 amended: the horizontal position and velocity agree; the vertical
\* position of the two steps is that of the single step plus
\* (gravity + force/mass) * dt1 * dt2, and the vertical velocity is that of the
\* single step minus (force/mass) * dt2 (the first step consumes the force).
C14_Amended ==
    [][IsTwiceStep
          => /\ player_'.pos.x = OncePos.x
             /\ player_'.vel.x = OnceVel.x
             /\ player_'.pos.y
                   = OncePos.y + (player_.acc.y + player_.force_accum.y * player_.inverse_mass)
                                    * ev'.dt * ev'.dt2
             /\ player_'.vel.y
                   = OnceVel.y - player_.force_accum.y * player_.inverse_mass * ev'.dt2
             /\ player_'.force_accum = [x |-> 0, y |-> 0]]_vars

\* two steps of positive frame time in free fall, without a clamp
C14_Witness ==
    /\ ev.handler = "physics_twice" /\ ~ev.clamped
    /\ ev.dt > 0 /\ ev.dt2 > 0
    /\ player_.vel.y > 0

\* C15: the mode changes only along Menu->Playing, Menu->Quitting,
\* Playing->End, End->Playing, End->Quitting; it never returns to Menu, and a
\* Playing frame leaves it at Playing or End whatever keys are down.
C15_ModeEdges ==
    /\ [][mode_' # mode_
             => <<mode_, mode_'>> \in {<<"Menu", "Playing">>, <<"Menu", "Quitting">>,
                                       <<"Playing", "End">>, <<"End", "Playing">>,
                                       <<"End", "Quitting">>}]_vars
    /\ [][mode_ # "Menu" => mode_' # "Menu"]_vars
    /\ [][IsPlayStep => mode_' \in {"Playing", "End"}]_vars

\* a Playing frame with the play, quit and flap keys all down stayed in Playing
C15_Witness ==
    /\ ev.handler = "on_play" /\ ev.keyP /\ ev.keyQ /\ ev.space
    /\ mode_ = "Playing"

\* C16: in the initial state and at every frame boundary in mode Playing the
\* obstacle is not behind the body and at most one screen width ahead of it.
C16_ObstacleAhead ==
    mode_ \in {"Menu", "Playing"}
       => /\ player_.pos.x <= ToFloat(obstacle_.x)
          /\ ToFloat(obstacle_.x) <= player_.pos.x + ToFloat(SCREEN_WIDTH)

\* right after a pass: the replacement obstacle is ahead, by less than one
\* screen width because its x lost its fraction
C16_Witness ==
    /\ mode_ = "Playing" /\ score_ = 1 /\ ev.handler = "on_play"
    /\ player_.pos.x < ToFloat(obstacle_.x)
    /\ ToFloat(obstacle_.x) < player_.pos.x + ToFloat(SCREEN_WIDTH)
    /\ ToFloat(obstacle_.x + 1) > player_.pos.x + ToFloat(SCREEN_WIDTH)

\* C17: at every frame boundary the accumulated force is zero or exactly one
\* flap force, with no horizontal component.
C17_ForceBounded ==
    player_.force_accum \in {[x |-> 0, y |-> 0], [x |-> 0, y |-> FLAP_FORCE]}

\* a Playing frame that applied a flap after an earlier flap in the session
C17_Witness ==
    /\ ev.handler = "on_play" /\ ev.flapped /\ mode_ = "Playing"
    /\ player_.force_accum = [x |-> 0, y |-> FLAP_FORCE]
    /\ player_.pos.y = 0 /\ player_.pos.x > ToFloat(PLAYER_START_X)

\* C18: the score is never negative; it changes only by +1 in a Playing frame
\* that survives and passes the obstacle, or to 0 in a frame that restarts; a
\* Menu or End frame without the play input leaves score, body and obstacle
\* unchanged.
C18_Score ==
    /\ [](score_ >= 0)
    /\ [][score_' # score_
             => \/ IsPlayStep /\ ~DeadAfter /\ PastAfter /\ score_' = score_ + 1
                \/ (IsMenuStep \/ IsDiedStep) /\ ev'.keyP /\ score_' = 0]_vars
    /\ [][((IsMenuStep \/ IsDiedStep) /\ ~ev'.keyP)
             => UNCHANGED <<score_, player_, obstacle_>>]_vars

\* an End frame without the play input still shows the score at death
C18_Witness ==
    /\ ev.handler = "on_died" /\ ~ev.keyP /\ ~ev.keyQ
    /\ mode_ = "End" /\ score_ = 1

\* C19: when the flap key is never down, every frame time is at least one
\* tick and the window is not closed, a session that is in Playing eventually
\* is in End.
C19_PlayingEnds == (mode_ = "Playing") ~> (mode_ = "End")

\* a session without a flap fell off the bottom before reaching the obstacle
C19_Witness ==
    /\ mode_ = "End" /\ ev.handler = "on_play" /\ ~ev.space /\ ev.dt > 0
    /\ lastPlaySpace = "up"
    /\ player_.pos.y > ToFloat(SCREEN_HEIGHT)
    /\ player_.pos.x < ToFloat(obstacle_.x) /\ score_ = 0

====
